---- MODULE Spec2Model ----
(***************************************************************************)
(* Model of the scraper of Coemeta-Webscraper (src/scraper.py): the result *)
(* extractor extract_results_from_soup, the two per-backend drivers        *)
(* scrape_with_driver and scrape_with_cloudscraper, and the retry          *)
(* orchestrator scrape_with_retry behind scrape_auction_results; the      *)
(* captcha handling (handle_captcha and its callees); the keyword loop of  *)
(* main (src/main.py); the spreadsheet sink write_results                  *)
(* (src/google_sheets.py); and the analytics sink insert_auction_results   *)
(* (src/backend/database/database.py).  Each operation that is checked on  *)
(* its own has a specification of its own (SpecExtract, SpecCaptcha,       *)
(* SpecSheet, SpecMain, SpecDb) in which the other variables rest.         *)
(*                                                                         *)
(* Strings are modelled as sequences of tokens: a description built by an  *)
(* f-string is the sequence of its literal pieces and substituted values,  *)
(* and a substring test is a test on the tokens (LowerHas, CaseHas).       *)
(*                                                                         *)
(* scrape_with_retry, lines 600-616: the clause "finally: driver.quit()"   *)
(* stands at the indentation of "if driver:", not of the "try" inside it,  *)
(* and, unlike lines 642-644, it has no "if driver" guard.  Python gives   *)
(* the construct no meaning: it rejects the file at line 615 (SyntaxError) *)
(* and every use of the entry point raises.  The text has two readings:    *)
(* the clause closes the "try" under "if driver:" (it runs only when a     *)
(* driver was built), or it closes the whole first-backend step (it runs   *)
(* on every path, and driver.quit() on a None driver raises                *)
(* AttributeError, which nothing in scrape_with_retry catches).  The model *)
(* does not choose between them: with driver = None, UndetectedFinally     *)
(* either falls through to the second backend or raises.                   *)
(***************************************************************************)
EXTENDS Integers, Sequences, FiniteSets, TLC

\* ------------------------------------------------------------------ bounds
MaxResultsBound == 3
MaxRetriesBound == 2
MaxElems == 2
MaxKeywords == 2

\* ------------------------------------------------------- program constants
NumSelectors == 10
NumUrlFormats == 4

\* the module flag, lines 41-51: both branches of the import test leave it False
UNDETECTED_AVAILABLE == FALSE

None == "None"

\* the four keys of a result dictionary
KD == "Item Description"
KP == "Current price"
KE == "Auction end date"
KI == "Auction image / thumbnail URL (extra credit)"
KEYS == {KD, KP, KE, KI}
KeyOrder == <<KD, KP, KE, KI>>

Keywords == {"x", "old lamp"}

\* ----------------------------------------------------------------- strings
\* literal pieces of the synthetic descriptions
T_ALL_FAILED == "All scraping methods failed for '"
T_MAY_BLOCK == "' - website may be blocking automated access"
T_ERR_SCRAPING == "Error scraping results for '"
T_CS_FAILED == "Cloudscraper failed for '"
T_URLS_FAILED == "All search URL formats failed for '"
T_NO_RESULTS == "No results found for '"
T_QCOLON == "': "
T_QUOTE == "'"
M_STILL_BLOCKED == "Still blocked after captcha handling"
M_BLOCKED_FAILED == "Blocked and captcha handling failed"
M_NAV == "Message: navigation timeout"
M_HTTP == "503 Server Error"
NA == <<"N/A">>
EMPTY == <<>>

\* values of driver.current_url after a navigation: the search page, a results
\* page, an auction page, and the home page the site redirects to
U_SEARCH == "https://shopgoodwill.com/search?keywords=x&sort=Closing"
U_RESULTS == "https://shopgoodwill.com/results"
U_AUCTION == "https://shopgoodwill.com/auctions"
U_HOME == "https://shopgoodwill.com/home"
CurrentUrls == {U_SEARCH, U_RESULTS, U_AUCTION, U_HOME}

\* needle in token.lower(), for the tokens and needles that occur
LowerHas(tok, needle) ==
    \/ needle = "blocked" /\ tok \in {M_STILL_BLOCKED, M_BLOCKED_FAILED}
    \/ needle = "error" /\ tok \in {T_ERR_SCRAPING, M_HTTP, "Error Coin"}
    \/ needle = "found" /\ tok \in {T_NO_RESULTS}
    \/ needle = "failed" /\ tok \in {T_ALL_FAILED, T_CS_FAILED, T_URLS_FAILED,
                                     M_BLOCKED_FAILED}
    \/ needle = "lamp" /\ tok \in {"old lamp", "Vintage Lamp"}
    \/ needle = tok

\* needle in token, case-sensitively
CaseHas(tok, needle) ==
    \/ needle = "Error" /\ tok \in {T_ERR_SCRAPING, M_HTTP, "Error Coin"}
    \/ needle = "search" /\ tok \in {U_SEARCH}
    \/ needle = "results" /\ tok \in {U_RESULTS}
    \/ needle = "auction" /\ tok \in {U_AUCTION}
    \/ needle = tok

\* needle in s.lower() for a token sequence s
ContainsLower(s, needle) == \E k \in 1..Len(s) : LowerHas(s[k], needle)
ContainsCase(s, needle) == \E k \in 1..Len(s) : CaseHas(s[k], needle)

\* ----------------------------------------------------------------- records
Record(d, p, e, i) == (KD :> d) @@ (KP :> p) @@ (KE :> e) @@ (KI :> i)

AllFailedRecord(kw) == Record(<<T_ALL_FAILED, kw, T_MAY_BLOCK>>, NA, NA, EMPTY)
ErrorRecord(kw, msg) == Record(<<T_ERR_SCRAPING, kw, T_QCOLON, msg>>, NA, NA, EMPTY)
CloudscraperFailedRecord(kw, msg) == Record(<<T_CS_FAILED, kw, T_QCOLON, msg>>, NA, NA, EMPTY)
UrlFormatsFailedRecord(kw) == Record(<<T_URLS_FAILED, kw, T_QUOTE>>, NA, NA, EMPTY)
NoResultsRecord(kw) == Record(<<T_NO_RESULTS, kw, T_MAY_BLOCK>>, NA, NA, EMPTY)

\* ---------------------------------------------------------------- elements
\* An optional value (a find() that may return None): <<>> or <<v>>.
NONE == <<>>
Some(v) == <<v>>

\* An element of the parsed document, as the extractor sees it:
\*   text, class : what elem.get_text() and elem.get("class") hold
\*   desc        : Some(text of the description element), or NONE without one
\*   price, date : Some(text of the price / date element), or NONE
\*   img         : Some(first non-empty source attribute of the <img>), or NONE
\*   raises      : 0, or the step of the item's processing that raises
\*                 (1 description, 2 price, 3 date, 4 image)
Elem(t, c, d, p, e, i, r) ==
    [text |-> t, class |-> c, desc |-> d, price |-> p, date |-> e, img |-> i, raises |-> r]

E_lamp == Elem("Vintage Lamp $45.00 Ends Dec 1", "", Some(<<"Vintage Lamp">>),
               Some(<<"$45.00">>), Some(<<"Ends Dec 1">>), Some(<<"/", "img/lamp.jpg">>), 0)
E_vase == Elem("Blue Vase", "", Some(<<"Blue Vase">>), NONE, NONE,
               Some(<<"//", "cdn.example/v.jpg">>), 0)
E_coin == Elem("Error Coin", "", Some(<<"Error Coin">>), Some(<<"$3.00">>), NONE,
               Some(<<"thumbs/coin.jpg">>), 0)
E_signin == Elem("Sign in", "", Some(<<"Sign in">>), NONE, NONE, NONE, 0)
E_navbar == Elem("Home", "navbar-item", Some(<<"Home">>), NONE, NONE, NONE, 0)
E_bare == Elem("$5.00", "", NONE, Some(<<"$5.00">>), NONE, NONE, 0)
E_blank == Elem("", "", Some(EMPTY), NONE, NONE, Some(<<"https://", "img.example/b.jpg">>), 0)
E_item1 == Elem("Item 1", "", Some(<<"Item ", "1">>), NONE, NONE, Some(<<"img/rel.jpg">>), 0)
E_bad == Elem("Broken", "", Some(<<"Broken">>), NONE, NONE, NONE, 2)

Elements == {E_lamp, E_vase, E_coin, E_signin, E_navbar, E_bare, E_blank, E_item1, E_bad}

\* ------------------------------------------------- extract_results_from_soup
\* any(skip_word in elem_text or skip_word in elem_classes ...), lines 995-1011
HasSkipWord(elem) ==
    \/ elem.text \in {"Sign in"}
    \/ elem.class \in {"navbar-item"}

filtered_elements(elements) == SelectSeq(elements, LAMBDA elem : ~HasSkipWord(elem))

ChosenSelectorLast(doc) ==
    LET hits == {s \in 1..NumSelectors : filtered_elements(doc[s]) # <<>>}
    IN  IF hits = {} THEN 0 ELSE CHOOSE s \in hits : \A t \in hits : s >= t

\* The selector loop: doc[s] is what soup.select(selectors_to_try[s]) returns.
\* The first selector whose matches survive the filter decides; 0 when none does.
ChosenSelector(doc) ==
    LET hits == {s \in 1..NumSelectors : filtered_elements(doc[s]) # <<>>}
    IN  IF hits = {} THEN 0 ELSE CHOOSE s \in hits : \A t \in hits : s <= t

product_elements(doc) ==
    IF ChosenSelector(doc) = 0 THEN <<>> ELSE filtered_elements(doc[ChosenSelector(doc)])

TruncateOff(seq, n) == seq

\* product_elements[:max_results]
Truncate(seq, n) == SubSeq(seq, 1, IF Len(seq) < n THEN Len(seq) ELSE n)

Placeholder(i) == <<"Item ", ToString(i)>>

\* the image source made absolute, lines 1110-1124
StartsWith(url, prefix) ==
    /\ url # <<>>
    /\ \/ url[1] = prefix
       \/ prefix = "/" /\ url[1] = "//"

BASE_URL == <<"https://", "shopgoodwill.com">>

AbsoluteImage(img) ==
    IF img = NONE THEN EMPTY
    ELSE LET image_url == img[1]
         IN  IF StartsWith(image_url, "//") THEN <<"https:">> \o image_url
             ELSE IF StartsWith(image_url, "/") THEN BASE_URL \o image_url
             ELSE image_url

\* the value the item's processing stores under each key
FieldValue(item, i, key) ==
    CASE key = KD -> IF item.desc # NONE THEN item.desc[1] ELSE Placeholder(i)
      [] key = KP -> IF item.price # NONE THEN item.price[1] ELSE <<"Price not available">>
      [] key = KE -> IF item.date # NONE THEN item.date[1] ELSE <<"Date not available">>
      [] key = KI -> AbsoluteImage(item.img)

\* item_data after the first n keys were stored
ItemData(item, i, n) ==
    [key \in {KeyOrder[j] : j \in 1..n} |-> FieldValue(item, i, key)]

\* the steps of the item's processing that complete before it raises
StepsDone(item) == IF item.raises = 0 THEN 4 ELSE item.raises - 1

ItemKeptUnchecked(item, i) == item.raises = 0

\* lines 1128-1132: the item is appended only when all four keys were stored
\* and the description is non-empty and not the placeholder
ItemKept(item, i) ==
    /\ item.raises = 0
    /\ ItemData(item, i, 4)[KD] # EMPTY
    /\ ItemData(item, i, 4)[KD] # Placeholder(i)

ProcessItemPartial(item, i) ==
    IF item.raises # 0 \/ ItemKept(item, i)
    THEN <<ItemData(item, i, StepsDone(item))>> ELSE <<>>

\* what one pass of the loop body adds to results (nothing on an exception:
\* the handler at 1134-1136 only prints)
ProcessItem(item, i) ==
    IF ItemKept(item, i) THEN <<ItemData(item, i, StepsDone(item))>> ELSE <<>>

RECURSIVE ProcessItemsReversed(_, _)
ProcessItemsReversed(items, n) ==
    IF n = 0 THEN <<>>
    ELSE ProcessItem(items[n], n) \o ProcessItemsReversed(items, n - 1)

RECURSIVE ProcessItemsAbort(_, _)
ProcessItemsAbort(items, n) ==
    IF n = 0 THEN <<>>
    ELSE IF \E j \in 1..n : items[j].raises # 0
         THEN ProcessItemsAbort(items, n - 1)
         ELSE ProcessItemsAbort(items, n - 1) \o ProcessItem(items[n], n)

RECURSIVE ProcessItems(_, _)
ProcessItems(items, n) ==
    IF n = 0 THEN <<>>
    ELSE ProcessItems(items, n - 1) \o ProcessItem(items[n], n)

WithFallbackAlways(res, kw) == Append(res, NoResultsRecord(kw))

\* lines 1138-1146
WithFallback(res, kw) ==
    IF res = <<>> THEN <<NoResultsRecord(kw)>> ELSE res

ExtractThenTruncate(doc, keyword, max_results) ==
    LET items == product_elements(doc)
    IN  WithFallback(Truncate(ProcessItems(items, Len(items)), max_results), keyword)

\* lines 1021-1148: the cut to max_results, the loop over the items, the fallback
extract_results_from_soup(doc, keyword, max_results) ==
    LET items == Truncate(product_elements(doc), max_results)
    IN  WithFallback(ProcessItems(items, Len(items)), keyword)

\* ------------------------------------------------------------------- pages
\* A document with elems as the matches of selector s and no other match.
DocAt(s, elems) == [k \in 1..NumSelectors |-> IF k = s THEN elems ELSE <<>>]

D_empty == DocAt(1, <<>>)
D_one == DocAt(1, <<E_lamp>>)
D_two == DocAt(1, <<E_lamp, E_vase>>)
D_three == DocAt(9, <<E_vase, E_lamp, E_coin>>)
D_nav == DocAt(2, <<E_signin>>)
D_mixed == DocAt(3, <<E_bad, E_lamp, E_vase>>)
PageDocs == {D_empty, D_one, D_two, D_three, D_nav, D_mixed}

\* What a fetch shows: the parsed document and whether the page source
\* contains one of the blocking indicators of check_for_blocking.
Pages == [blocked : BOOLEAN, doc : PageDocs]
NoPage == [blocked |-> FALSE, doc |-> D_empty]

CheckForBlockingNever(page) == FALSE

\* check_for_blocking, lines 526-549
check_for_blocking(page) == page.blocked

\* handle_captcha and its callees call the driver; any of these calls may
\* raise (the session died, the element went stale, input() met end of file)
CaptchaCalls == {"none", "find_elements", "switch_frame", "find_checkbox", "click",
                 "default_content", "find_text", "find_inputs", "input"}

\* What the driver shows to handle_captcha:
\*   elements : one of the seven captcha selectors matches
\*   checkbox : the captcha frame holds a checkbox
\*   text     : an element's text contains "captcha" or "verify"
\*   inputs   : the page has a text input
\*   raises   : the driver call that raises, "none" if none does
\*   handlerRaises : default_content() inside solve_captcha's handler raises too
CaptchaEnv ==
    [elements : BOOLEAN, checkbox : BOOLEAN, text : BOOLEAN, inputs : BOOLEAN,
     raises : CaptchaCalls, handlerRaises : BOOLEAN]

\* the outcome of a call: its return value, whether an exception left it, and
\* whether a checkbox click / a manual-input prompt was attempted
CaptchaOut(r, x, c, p) == [ret |-> r, raised |-> x, clicked |-> c, prompted |-> p]

\* solve_captcha, lines 389-413
solve_captcha(cap) ==
    LET failed(c) == CaptchaOut(FALSE, cap.handlerRaises, c, FALSE)
    IN  CASE cap.raises = "switch_frame" -> failed(FALSE)
          [] cap.raises = "find_checkbox" -> failed(FALSE)
          [] cap.raises = "click" /\ cap.checkbox -> failed(TRUE)
          [] cap.raises = "default_content" -> failed(cap.checkbox)
          [] OTHER -> CaptchaOut(TRUE, FALSE, cap.checkbox, FALSE)

\* handle_text_captcha, lines 437-455
handle_text_captcha(cap) ==
    IF cap.raises = "find_inputs" THEN CaptchaOut(FALSE, FALSE, FALSE, FALSE)
    ELSE IF cap.inputs
         THEN CaptchaOut(cap.raises # "input", FALSE, FALSE, TRUE)
         ELSE CaptchaOut(FALSE, FALSE, FALSE, FALSE)

\* handle_captcha, lines 331-362: whatever its callees raise is caught at 360
handle_captcha(cap) ==
    IF cap.raises = "find_elements" THEN CaptchaOut(FALSE, FALSE, FALSE, FALSE)
    ELSE IF cap.elements
         THEN LET r == solve_captcha(cap)
              IN  IF r.raised THEN CaptchaOut(FALSE, FALSE, r.clicked, r.prompted) ELSE r
    ELSE IF cap.raises = "find_text" THEN CaptchaOut(FALSE, FALSE, FALSE, FALSE)
    ELSE IF cap.text THEN handle_text_captcha(cap)
    ELSE CaptchaOut(FALSE, FALSE, FALSE, FALSE)

IsSuccessNonEmpty(res) == res # <<>> /\ Len(res) > 0

\* "if results and len(results) > 1", lines 605, 631, 649
IsSuccess(res) == res # <<>> /\ Len(res) > 1

AcceptedNonEmpty(res) == res # <<>> /\ Len(res) > 0

\* lines 893-897 of scrape_with_cloudscraper: str(r) holds every value of r
HasErrorText(r) == \E key \in DOMAIN r : ContainsCase(r[key], "Error")
Accepted(res) == res # <<>> /\ Len(res) > 0 /\ ~(\E k \in 1..Len(res) : HasErrorText(res[k]))

OnSearchPageStrict(current_url) == CaseHas(current_url, "search")

\* lines 738-742 of scrape_with_driver
OnSearchPage(current_url) ==
    \/ CaseHas(current_url, "search")
    \/ CaseHas(current_url, "results")
    \/ CaseHas(current_url, "auction")

\* ------------------------------------------------------------------- state
VARIABLES
    keyword, max_results, max_retries, \* arguments of scrape_with_retry
    pc,          \* position in scrape_with_retry and its callees
    attempt,     \* the round, 0-based as in the code
    backend,     \* 1 undetected Chrome, 2 stealth Chrome, 3 cloudscraper, 0 none yet
    driver,      \* the local variable driver: None or a session handle
    live,        \* number of browser sessions built and not yet quit
    results,     \* the local variable results (<<>> while no call's result is awaited)
    retPending,  \* a return statement inside a try is waiting for the finally
    returned,    \* the list scrape_with_retry returned, <<>> before it returns
    raised,      \* the exception that left scrape_with_retry, None if none
    urlIdx,      \* index into search_urls of the backend at work
    page,        \* the page the backend at work is on
    exn,         \* message of the exception caught by scrape_with_driver
    last,        \* history: the backend attempt that finished last
    backoffs,    \* history: number of sleeps between rounds
    hist         \* history: what the browser backends met so far

ovars == <<keyword, max_results, max_retries, pc, attempt, backend,
           driver, live, results, retPending, returned, raised, urlIdx, page, exn, last,
           backoffs, hist>>

VARIABLES
    x_pc,        \* extractor harness: "in" before the call, "out" after it
    x_doc, x_keyword, x_max_results, \* arguments of extract_results_from_soup
    x_results    \* its return value

xvars == <<x_pc, x_doc, x_keyword, x_max_results, x_results>>

VARIABLES
    c_pc,        \* captcha harness: "in" before the call, "out" after it
    c_env,       \* what the driver shows to handle_captcha
    c_out        \* the outcome of handle_captcha

cvars == <<c_pc, c_env, c_out>>

VARIABLES
    g_ws,        \* the 'RESULTS TEMPLATE' worksheet: whether it exists, and its cells
    g_pc,        \* sheet harness: "call" while calls are made, "raised" after a raise
    g_keyword, g_results, \* arguments of write_results
    g_old,       \* the worksheet before the first call
    g_first,     \* the cells after the first call that returned
    g_calls,     \* number of calls that returned
    g_clean      \* no image update failed in a call so far

gvars == <<g_ws, g_pc, g_keyword, g_results, g_old, g_first, g_calls, g_clean>>

VARIABLES
    m_pc,        \* position in main
    m_keywords,  \* the keywords read from the sheet
    m_i,         \* index of the keyword being processed, 0 before the loop
    m_results,   \* the local variable results
    m_scraped,   \* history: the keywords scrape_auction_results was called with
    m_written,   \* history: the calls of write_results
    m_raised     \* whether an exception left main

mvars == <<m_pc, m_keywords, m_i, m_results, m_scraped, m_written, m_raised>>

VARIABLES
    d_pc,        \* position in insert_auction_results
    d_keyword, d_results, \* its arguments
    d_i,         \* index of the row being inserted
    d_table,     \* the committed rows of auction_results
    d_open,      \* rows inserted on the connection and not yet committed
    d_before,    \* the committed rows before the call
    d_ret,       \* the return value, -1 before the return
    d_raised     \* whether an exception left the call

dvars == <<d_pc, d_keyword, d_results, d_i, d_table, d_open, d_before, d_ret, d_raised>>

\* the variables of the harnesses around the other operations
svars == <<cvars, gvars, mvars, dvars>>

vars == <<ovars, xvars, svars>>

XIdle ==
    /\ x_pc = "idle" /\ x_doc = D_empty /\ x_keyword = "x"
    /\ x_max_results = 1 /\ x_results = <<>>

CIdle ==
    /\ c_pc = "idle"
    /\ c_env = [elements |-> FALSE, checkbox |-> FALSE, text |-> FALSE, inputs |-> FALSE,
                raises |-> "none", handlerRaises |-> FALSE]
    /\ c_out = CaptchaOut(FALSE, FALSE, FALSE, FALSE)

WS_absent == [exists |-> FALSE, cells |-> <<>>]

GIdle ==
    /\ g_ws = WS_absent /\ g_pc = "idle" /\ g_keyword = "x" /\ g_results = <<>>
    /\ g_old = WS_absent /\ g_first = <<>> /\ g_calls = 0 /\ g_clean = TRUE

MIdle ==
    /\ m_pc = "idle" /\ m_keywords = <<>> /\ m_i = 0 /\ m_results = <<>>
    /\ m_scraped = <<>> /\ m_written = <<>> /\ m_raised = FALSE

DIdle ==
    /\ d_pc = "idle" /\ d_keyword = "x" /\ d_results = <<>> /\ d_i = 1
    /\ d_table = <<>> /\ d_open = <<>> /\ d_before = <<>> /\ d_ret = -1
    /\ d_raised = FALSE

SIdle == CIdle /\ GIdle /\ MIdle /\ DIdle

\* anyPage: a browser backend loaded a page; allBlocked: every page a browser
\* backend loaded was blocked; ctorTried: webdriver.Chrome was called;
\* anyBuilt: a browser driver was constructed; captchaHandled: handle_captcha
\* returned True at least once; attempts: backend attempts begun so far;
\* current_url: the local current_url of scrape_with_driver, from the
\* navigation that set it to the blocking check; nothing reads it after the
\* URL loop, and it is None again from there on
InitHist ==
    [anyPage |-> FALSE, allBlocked |-> TRUE, ctorTried |-> FALSE, anyBuilt |-> FALSE,
     captchaHandled |-> FALSE, attempts |-> 0, current_url |-> None]

\* what is remembered of a finished attempt: its round and backend, the
\* length of its result list (0 without one), whether the orchestrator took
\* it as a success, and whether its page held a blocking indicator
LogEntry(r, b, res, ok, blk) ==
    [round |-> r, backend |-> b, len |-> Len(res), success |-> ok, blocked |-> blk]
NoEntry == [round |-> 0, backend |-> 0, len |-> 0, success |-> FALSE, blocked |-> FALSE]

Init ==
    /\ keyword \in Keywords
    /\ max_results \in 1..MaxResultsBound
    /\ max_retries \in 1..MaxRetriesBound
    /\ pc = "loop" /\ attempt = 0 /\ backend = 0
    /\ driver = None /\ live = 0
    /\ results = <<>> /\ retPending = FALSE /\ returned = <<>> /\ raised = None
    /\ urlIdx = 1 /\ page = NoPage /\ exn = None
    /\ last = NoEntry /\ backoffs = 0 /\ hist = InitHist
    /\ XIdle /\ SIdle


QuitSkipped(n) == n

\* driver.quit(): the session is released
Quit(n) == n - 1

\* ------------------------------------------------------- scrape_with_retry
\* line 597: the for loop enters round `attempt`
BeginRound ==
    /\ pc = "loop" /\ attempt < max_retries
    /\ pc' = "b1_setup"
    /\ UNCHANGED <<keyword, max_results, max_retries, attempt, backend,
                   driver, live, results, retPending, returned, raised, urlIdx, page, exn,
                   last, backoffs, hist, xvars, svars>>

\* lines 666-674: the loop is exhausted
ReturnAllFailed ==
    /\ pc = "loop" /\ attempt >= max_retries
    /\ returned' = <<AllFailedRecord(keyword)>>
    /\ pc' = "done"
    /\ UNCHANGED <<keyword, max_results, max_retries, attempt, backend,
                   driver, live, results, retPending, raised, urlIdx, page, exn,
                   last, backoffs, hist, xvars, svars>>

\* line 601 with setup_undetected_chrome, lines 244-305: None when the flag is
\* off or when building raises, else a new session
SetupUndetected ==
    /\ pc = "b1_setup"
    /\ \E builds \in BOOLEAN :
         LET ok == UNDETECTED_AVAILABLE /\ builds
         IN  /\ driver' = IF ok THEN "uc" ELSE None
             /\ live' = IF ok THEN live + 1 ELSE live
             /\ pc' = IF ok THEN "swd_get" ELSE "b1_finally"
             /\ hist' = [hist EXCEPT !.anyBuilt = @ \/ ok, !.attempts = @ + 1,
                                     !.current_url = None]
             /\ last' = IF ok THEN last ELSE LogEntry(attempt, 1, <<>>, FALSE, FALSE)
    /\ backend' = 1 /\ urlIdx' = 1 /\ page' = NoPage /\ exn' = None
    /\ UNCHANGED <<keyword, max_results, max_retries, attempt,
                   results, retPending, returned, raised, backoffs, xvars, svars>>

\* ------------------------------------------------------ scrape_with_driver
\* lines 728-754: driver.get(search_urls[urlIdx]) raises, or current_url is
\* read and tested; the loop ends at a search page or after the last format
SwdGet ==
    /\ pc = "swd_get"
    /\ \/ /\ pc' = "swd_except" /\ exn' = M_NAV
          /\ hist' = [hist EXCEPT !.current_url = None]
          /\ urlIdx' = urlIdx
       \/ \E url \in CurrentUrls :
            /\ hist' = [hist EXCEPT !.current_url = url]
            /\ exn' = exn
            /\ IF OnSearchPage(url) \/ urlIdx >= NumUrlFormats
               THEN pc' = "swd_check" /\ urlIdx' = urlIdx
               ELSE pc' = "swd_get" /\ urlIdx' = urlIdx + 1
    /\ UNCHANGED <<keyword, max_results, max_retries, attempt, backend,
                   driver, live, results, retPending, returned, raised, page,
                   last, backoffs, xvars, svars>>

\* lines 756-764: the page the driver is on, and check_for_blocking
SwdCheck ==
    /\ pc = "swd_check"
    /\ \E p \in Pages :
         /\ page' = p
         /\ pc' = IF check_for_blocking(p) THEN "swd_captcha" ELSE "swd_extract"
         /\ hist' = [hist EXCEPT !.anyPage = TRUE, !.allBlocked = @ /\ p.blocked,
                                 !.current_url = None]
    /\ UNCHANGED <<keyword, max_results, max_retries, attempt, backend,
                   driver, live, results, retPending, returned, raised, urlIdx, exn,
                   last, backoffs, xvars, svars>>

\* lines 766-771: handle_captcha, and the second check_for_blocking
SwdCaptcha ==
    /\ pc = "swd_captcha"
    /\ \E cap \in CaptchaEnv, after \in BOOLEAN :
         IF handle_captcha(cap).ret
         THEN LET p == [page EXCEPT !.blocked = after]
              IN  /\ page' = p
                  /\ hist' = [hist EXCEPT !.captchaHandled = TRUE,
                                          !.allBlocked = @ /\ p.blocked]
                  /\ IF check_for_blocking(p)
                     THEN pc' = "swd_except" /\ exn' = M_STILL_BLOCKED
                     ELSE pc' = "swd_extract" /\ exn' = exn
         ELSE /\ pc' = "swd_except" /\ exn' = M_BLOCKED_FAILED
              /\ UNCHANGED <<page, hist>>
    /\ UNCHANGED <<keyword, max_results, max_retries, attempt, backend,
                   driver, live, results, retPending, returned, raised, urlIdx,
                   last, backoffs, xvars, svars>>

\* lines 773-793: page_source is parsed and handed to the extractor; reading
\* page_source may raise
SwdExtract ==
    /\ pc = "swd_extract"
    /\ \E ok \in BOOLEAN :
         IF ok
         THEN /\ results' = extract_results_from_soup(page.doc, keyword, max_results)
              /\ pc' = "b_check" /\ exn' = exn
         ELSE /\ pc' = "swd_except" /\ exn' = M_NAV /\ results' = results
    /\ UNCHANGED <<keyword, max_results, max_retries, attempt, backend,
                   driver, live, retPending, returned, raised, urlIdx, page,
                   last, backoffs, hist, xvars, svars>>

\* lines 795-814: the handler returns the single error record
SwdExcept ==
    /\ pc = "swd_except"
    /\ results' = <<ErrorRecord(keyword, exn)>>
    /\ pc' = "b_check"
    /\ UNCHANGED <<keyword, max_results, max_retries, attempt, backend,
                   driver, live, retPending, returned, raised, urlIdx, page, exn,
                   last, backoffs, hist, xvars, svars>>

\* ------------------------------------------- scrape_with_retry, continued
\* lines 605-606 and 631-632: the result of scrape_with_driver is tested
BrowserCheck ==
    /\ pc = "b_check" /\ backend \in {1, 2}
    /\ retPending' = IsSuccess(results)
    /\ last' = LogEntry(attempt, backend, results, IsSuccess(results), page.blocked)
    /\ pc' = IF backend = 1 THEN "b1_finally" ELSE "b2_finally"
    /\ UNCHANGED <<keyword, max_results, max_retries, attempt, backend,
                   driver, live, results, returned, raised, urlIdx, page, exn,
                   backoffs, hist, xvars, svars>>

\* lines 615-616: "finally: driver.quit()" of the first backend.  With a
\* driver the session is released and a pending return completes; with None
\* the clause is either skipped with the "if" or run on None (see the head
\* of the module)
UndetectedFinally ==
    /\ pc = "b1_finally"
    /\ IF driver = None
       THEN /\ \E unguarded \in BOOLEAN :
                 IF unguarded
                 THEN raised' = "AttributeError" /\ pc' = "raised"
                 ELSE raised' = raised /\ pc' = "b2_setup"
            /\ UNCHANGED <<live, returned, retPending>>
       ELSE /\ live' = Quit(live)
            /\ raised' = raised
            /\ retPending' = FALSE
            /\ returned' = IF retPending THEN results ELSE returned
            /\ pc' = IF retPending THEN "done" ELSE "b2_setup"
    /\ results' = <<>>
    /\ UNCHANGED <<keyword, max_results, max_retries, attempt, backend,
                   driver, urlIdx, page, exn, last, backoffs, hist, xvars, svars>>

\* lines 619-628: the stealth Chrome is built inside the try; the driver
\* manager or the constructor may raise before driver is bound, and
\* execute_script may raise after it
SetupStealth ==
    /\ pc = "b2_setup"
    /\ \E outcome \in {"constructor_raises", "script_raises", "ok"} :
         /\ driver' = IF outcome = "constructor_raises" THEN None ELSE "chrome"
         /\ live' = IF outcome = "constructor_raises" THEN live ELSE live + 1
         /\ pc' = IF outcome = "ok" THEN "swd_get" ELSE "b2_except"
         /\ hist' = [hist EXCEPT !.anyBuilt = @ \/ outcome # "constructor_raises",
                                 !.ctorTried = TRUE, !.attempts = @ + 1,
                                 !.current_url = None]
    /\ backend' = 2 /\ urlIdx' = 1 /\ page' = NoPage /\ exn' = None
    /\ UNCHANGED <<keyword, max_results, max_retries, attempt,
                   results, retPending, returned, raised, last, backoffs, xvars, svars>>

\* lines 634-641: handle_error(reraise=False) logs and returns
StealthExcept ==
    /\ pc = "b2_except"
    /\ last' = LogEntry(attempt, 2, <<>>, FALSE, FALSE)
    /\ pc' = "b2_finally"
    /\ UNCHANGED <<keyword, max_results, max_retries, attempt, backend,
                   driver, live, results, retPending, returned, raised, urlIdx, page, exn,
                   backoffs, hist, xvars, svars>>

\* lines 642-644: "finally: if driver: driver.quit()"
StealthFinally ==
    /\ pc = "b2_finally"
    /\ live' = IF driver # None THEN Quit(live) ELSE live
    /\ retPending' = FALSE
    /\ returned' = IF retPending THEN results ELSE returned
    /\ pc' = IF retPending THEN "done" ELSE "cs_setup"
    /\ results' = <<>>
    /\ UNCHANGED <<keyword, max_results, max_retries, attempt, backend,
                   driver, raised, urlIdx, page, exn, last, backoffs, hist, xvars, svars>>

\* ------------------------------------------------ scrape_with_cloudscraper
\* lines 861-878: the session and the headers are set up inside the outer try,
\* whose handler (918-937) returns the single "Cloudscraper failed" record
CsSetup ==
    /\ pc = "cs_setup"
    /\ \E ok \in BOOLEAN :
         IF ok
         THEN pc' = "cs_fetch" /\ results' = results
         ELSE pc' = "cs_check" /\ results' = <<CloudscraperFailedRecord(keyword, M_HTTP)>>
    /\ backend' = 3 /\ urlIdx' = 1 /\ page' = NoPage
    /\ hist' = [hist EXCEPT !.attempts = @ + 1]
    /\ UNCHANGED <<keyword, max_results, max_retries, attempt,
                   driver, live, retPending, returned, raised, exn,
                   last, backoffs, xvars, svars>>

\* lines 881-906: one pass of the loop over search_urls.  get or
\* raise_for_status raises (the pass is abandoned), or the page is parsed,
\* extracted and accepted or not
CsFetch ==
    /\ pc = "cs_fetch" /\ urlIdx <= NumUrlFormats
    /\ \E outcome \in {"raises", "page"}, p \in Pages :
         LET res == extract_results_from_soup(p.doc, keyword, max_results)
         IN  IF outcome = "page" /\ Accepted(res)
             THEN /\ results' = res /\ page' = p /\ pc' = "cs_check"
                  /\ urlIdx' = urlIdx
             ELSE /\ urlIdx' = urlIdx + 1
                  /\ page' = IF outcome = "page" THEN p ELSE page
                  /\ UNCHANGED <<results, pc>>
    /\ UNCHANGED <<keyword, max_results, max_retries, attempt, backend,
                   driver, live, retPending, returned, raised, exn,
                   last, backoffs, hist, xvars, svars>>

\* lines 908-916: no URL format was accepted
CsAllFailed ==
    /\ pc = "cs_fetch" /\ urlIdx > NumUrlFormats
    /\ results' = <<UrlFormatsFailedRecord(keyword)>>
    /\ page' = NoPage
    /\ pc' = "cs_check"
    /\ UNCHANGED <<keyword, max_results, max_retries, attempt, backend,
                   driver, live, retPending, returned, raised, urlIdx, exn,
                   last, backoffs, hist, xvars, svars>>

\* lines 648-650: the result of scrape_with_cloudscraper is tested
CsCheck ==
    /\ pc = "cs_check"
    /\ last' = LogEntry(attempt, 3, results, IsSuccess(results), page.blocked)
    /\ returned' = IF IsSuccess(results) THEN results ELSE returned
    /\ pc' = IF IsSuccess(results) THEN "done" ELSE "round_end"
    /\ results' = <<>>
    /\ UNCHANGED <<keyword, max_results, max_retries, attempt, backend,
                   driver, live, retPending, raised, urlIdx, page, exn,
                   backoffs, hist, xvars, svars>>

RetriesRemainAlways(a, n) == TRUE

\* "if attempt < max_retries - 1", line 661
RetriesRemain(a, n) == a < n - 1

NextRoundStuck(a) == a

\* "for attempt in range(max_retries)", line 597: the next value of attempt
NextRound(a) == a + 1

\* lines 660-664: the sleep before the next round, and the next round
EndRound ==
    /\ pc = "round_end"
    /\ backoffs' = IF RetriesRemain(attempt, max_retries) THEN backoffs + 1 ELSE backoffs
    /\ attempt' = NextRound(attempt)
    /\ pc' = "loop"
    /\ UNCHANGED <<keyword, max_results, max_retries, backend,
                   driver, live, results, retPending, returned, raised, urlIdx, page, exn,
                   last, hist, xvars, svars>>

Next ==
    \/ BeginRound \/ ReturnAllFailed
    \/ SetupUndetected \/ UndetectedFinally
    \/ SetupStealth \/ StealthExcept \/ StealthFinally
    \/ SwdGet \/ SwdCheck \/ SwdCaptcha \/ SwdExtract \/ SwdExcept \/ BrowserCheck
    \/ CsSetup \/ CsFetch \/ CsAllFailed \/ CsCheck
    \/ EndRound

Spec == Init /\ [][Next]_vars

\* every call made by scrape_with_retry returns or raises: no step waits for ever
SpecFair == Spec /\ WF_vars(Next)

\* ---------------------------------------------------- the extractor alone
\* Documents: the matches of one selector, and those of the next selector in
\* priority order.
RECURSIVE SeqsUpTo(_)
SeqsUpTo(n) ==
    IF n = 0 THEN {<<>>}
    ELSE SeqsUpTo(n - 1) \cup
         {Append(q, e) : q \in {r \in SeqsUpTo(n - 1) : Len(r) = n - 1}, e \in Elements}

LowerLists == {<<>>, <<E_coin>>, <<E_navbar>>}

XDocs ==
    {[k \in 1..NumSelectors |-> IF k = s THEN a ELSE IF k = s + 1 THEN b ELSE <<>>] :
        s \in 1..(NumSelectors - 1), a \in SeqsUpTo(MaxElems), b \in LowerLists}

OIdle ==
    /\ keyword = "x" /\ max_results = 1 /\ max_retries = 1
    /\ pc = "idle" /\ attempt = 0 /\ backend = 0 /\ driver = None /\ live = 0
    /\ results = <<>> /\ retPending = FALSE /\ returned = <<>> /\ raised = None
    /\ urlIdx = 1 /\ page = NoPage /\ exn = None
    /\ last = NoEntry /\ backoffs = 0 /\ hist = InitHist

InitExtract ==
    /\ OIdle /\ SIdle
    /\ x_pc = "in"
    /\ x_doc \in XDocs
    /\ x_keyword \in Keywords
    /\ x_max_results \in 1..MaxResultsBound
    /\ x_results = <<>>

\* results = extract_results_from_soup(soup, keyword, max_results)
XCall ==
    /\ x_pc = "in"
    /\ x_results' = extract_results_from_soup(x_doc, x_keyword, x_max_results)
    /\ x_pc' = "out"
    /\ UNCHANGED <<x_doc, x_keyword, x_max_results, ovars, svars>>

NextExtract == XCall

SpecExtract == InitExtract /\ [][NextExtract]_vars

\* ------------------------------------------------------ handle_captcha alone
InitCaptcha ==
    /\ OIdle /\ XIdle /\ GIdle /\ MIdle /\ DIdle
    /\ c_pc = "in"
    /\ c_env \in CaptchaEnv
    /\ c_out = CaptchaOut(FALSE, FALSE, FALSE, FALSE)

\* captcha_handled = self.handle_captcha(driver), line 766
CCall ==
    /\ c_pc = "in"
    /\ c_out' = handle_captcha(c_env)
    /\ c_pc' = "out"
    /\ UNCHANGED <<c_env, ovars, xvars, gvars, mvars, dvars>>

NextCaptcha == CCall

SpecCaptcha == InitCaptcha /\ [][NextCaptcha]_vars

\* ------------------------------------------- google_sheets.write_results
\* the header row, lines 124-130; a cell is a string, i.e. a token sequence
COLUMNS == <<<<"Keyword">>, <<KD>>, <<KE>>, <<KP>>, <<KI>>>>

\* row.get(key, "")
Get(row, key) == IF key \in DOMAIN row THEN row[key] ELSE EMPTY

\* lines 145-155: the header, then one row per record
SheetData(kw, res) ==
    <<COLUMNS>> \o
    [k \in 1..Len(res) |->
        <<<<kw>>, Get(res[k], KD), Get(res[k], KE), Get(res[k], KP), Get(res[k], KI)>>]

\* line 167
ImageFormula(url) == <<"=IMAGE(\"">> \o url \o <<"\", 3, 100, 100)">>

ClearSkipped(cells) == cells

\* worksheet.clear(), line 138
Clear(cells) == <<>>

\* worksheet.update("A1", data), line 158: the range of data is overwritten,
\* cells outside of it keep their values
Update(cells, data) ==
    [k \in 1..(IF Len(cells) > Len(data) THEN Len(cells) ELSE Len(data)) |->
        IF k <= Len(data)
        THEN data[k] \o (IF k <= Len(cells) /\ Len(cells[k]) > Len(data[k])
                         THEN SubSeq(cells[k], Len(data[k]) + 1, Len(cells[k]))
                         ELSE <<>>)
        ELSE cells[k]]

\* How the API behaves during one call:
\*   fail    : the call that raises out of write_results, "none" if none does
\*   imgFail : index of the record whose update_cell with the formula raises, 0 if none
\*   fallbackFails : the update_cell of the fallback at line 172 raises as well
SheetApi ==
    [fail : {"none", "open", "worksheet", "clear", "add", "update"},
     imgFail : 0..MaxResultsBound, fallbackFails : BOOLEAN]

\* lines 161-174: what column E of the row of record k holds after the loop
ImageCell(url, k, api) ==
    IF url = EMPTY THEN url
    ELSE IF api.imgFail = 0 \/ k < api.imgFail THEN ImageFormula(url)
    ELSE IF k = api.imgFail THEN url
    ELSE IF api.fallbackFails THEN url
    ELSE ImageFormula(url)

\* an image update of the call failed and was swallowed (169-174)
ImageFailure(res, api) ==
    api.imgFail \in 1..Len(res) /\ Get(res[api.imgFail], KI) # EMPTY

\* write_results, lines 132-174: the worksheet afterwards, and whether the call raised
write_results(ws, kw, res, api) ==
    IF api.fail = "open" \/ (ws.exists /\ api.fail \in {"worksheet", "clear"})
       \/ (~ws.exists /\ api.fail = "add")
    THEN [ws |-> ws, raised |-> TRUE]
    ELSE LET opened == [exists |-> TRUE,
                        cells |-> IF ws.exists THEN Clear(ws.cells) ELSE <<>>]
             data == SheetData(kw, res)
             written == Update(opened.cells, data)
         IN  IF api.fail = "update" THEN [ws |-> opened, raised |-> TRUE]
             ELSE [ws |-> [exists |-> TRUE,
                           cells |-> [k \in 1..Len(written) |->
                               IF k >= 2 /\ k <= Len(data)
                               THEN [written[k] EXCEPT
                                        ![5] = ImageCell(Get(res[k - 1], KI), k - 1, api)]
                               ELSE written[k]]],
                   raised |-> FALSE]

\* worksheets a call may find: none, an empty one, and one with the rows of an
\* earlier, longer result list and a note in column F
WS_empty == [exists |-> TRUE, cells |-> <<>>]
WS_old ==
    [exists |-> TRUE,
     cells |-> <<COLUMNS,
                 <<<<"desk">>, <<"Oak Desk">>, <<"Ends Nov 2">>, <<"$80.00">>, EMPTY, <<"note">>>>,
                 <<<<"desk">>, <<"Desk Lamp">>, NA, <<"$9.00">>, EMPTY>>,
                 <<<<"desk">>, <<"Desk Mat">>, NA, <<"$2.00">>, EMPTY>>,
                 <<<<"desk">>, <<"Desk Fan">>, NA, <<"$7.00">>, EMPTY>>,
                 <<<<"desk">>, <<"Desk Set">>, NA, <<"$5.00">>, EMPTY>>>>]
Worksheets == {WS_absent, WS_empty, WS_old}

\* result lists handed to the sinks
RecordLists(kw) ==
    {<<AllFailedRecord(kw)>>} \cup
    {extract_results_from_soup(d, kw, MaxResultsBound) : d \in PageDocs}

InitSheet ==
    /\ OIdle /\ XIdle /\ CIdle /\ MIdle /\ DIdle
    /\ g_ws \in Worksheets /\ g_old = g_ws
    /\ g_pc = "call"
    /\ g_keyword \in Keywords
    /\ g_results \in RecordLists(g_keyword)
    /\ g_first = <<>> /\ g_calls = 0 /\ g_clean = TRUE

\* write_results(sheet_id, keyword, results, client), called up to twice
GWrite ==
    /\ g_pc = "call" /\ g_calls < 2
    /\ \E api \in SheetApi :
         LET r == write_results(g_ws, g_keyword, g_results, api)
         IN  /\ g_ws' = r.ws
             /\ g_pc' = IF r.raised THEN "raised" ELSE "call"
             /\ g_calls' = IF r.raised THEN g_calls ELSE g_calls + 1
             /\ g_first' = IF ~r.raised /\ g_calls = 0 THEN r.ws.cells ELSE g_first
             /\ g_clean' = (g_clean /\ ~ImageFailure(g_results, api))
    /\ UNCHANGED <<g_keyword, g_results, g_old, ovars, xvars, cvars, mvars, dvars>>

NextSheet == GWrite

SpecSheet == InitSheet /\ [][NextSheet]_vars

\* ------------------------------------------------------------ main.main
\* what read_keywords may return, lines 229-233
KeywordLists == UNION {[1..n -> Keywords] : n \in 0..MaxKeywords}

\* How a call of scrape_auction_results(keyword, max_results=config.MAX_RESULTS)
\* ends for main: it raises (UndetectedFinally), or it returns a success list
\* of a backend or the all-failed record (ReturnAllFailed)
ScrapeOutcomes(kw) ==
    {[raised |-> TRUE, list |-> <<>>]} \cup
    {[raised |-> FALSE, list |-> l] :
        l \in {r \in RecordLists(kw) : IsSuccess(r)} \cup {<<AllFailedRecord(kw)>>}}

HandleErrorReraise(reraise) == "raise"

\* error_handling.handle_error, lines 116-139: logs, and raises only on request
handle_error(reraise) == IF reraise THEN "raise" ELSE "return"

InitMain ==
    /\ OIdle /\ XIdle /\ CIdle /\ DIdle
    /\ g_ws \in {WS_absent, WS_old} /\ g_pc = "idle" /\ g_keyword = "x" /\ g_results = <<>>
    /\ g_old = WS_absent /\ g_first = <<>> /\ g_calls = 0 /\ g_clean = TRUE
    /\ m_pc = "setup" /\ m_keywords \in KeywordLists /\ m_i = 0 /\ m_results = <<>>
    /\ m_scraped = <<>> /\ m_written = <<>> /\ m_raised = FALSE

\* lines 215-237: credentials, client and keywords; a missing credential or an
\* empty keyword list returns, an exception goes to the handler at 287
MainSetup ==
    /\ m_pc = "setup"
    /\ \E outcome \in {"no_credentials", "raises", "ok"} :
         /\ m_pc' = CASE outcome = "no_credentials" -> "done"
                      [] outcome = "raises" -> "outer_except"
                      [] OTHER -> IF m_keywords = <<>> THEN "done" ELSE "scrape"
         /\ m_i' = IF outcome = "ok" /\ m_keywords # <<>> THEN 1 ELSE m_i
    /\ UNCHANGED <<m_keywords, m_results, m_scraped, m_written, m_raised,
                   ovars, xvars, cvars, gvars, dvars>>

\* lines 249-252: results = scrape_auction_results(keyword, ...)
MainScrape ==
    /\ m_pc = "scrape"
    /\ \E o \in ScrapeOutcomes(m_keywords[m_i]) :
         /\ m_results' = IF o.raised THEN m_results ELSE o.list
         /\ m_pc' = IF o.raised THEN "except" ELSE "test"
    /\ m_scraped' = Append(m_scraped, m_keywords[m_i])
    /\ UNCHANGED <<m_keywords, m_i, m_written, m_raised, ovars, xvars, cvars, gvars, dvars>>

\* lines 254 and 270-272: "if results:"
MainTest ==
    /\ m_pc = "test"
    /\ m_pc' = IF m_results # <<>> THEN "write" ELSE "next"
    /\ UNCHANGED <<m_keywords, m_i, m_results, m_scraped, m_written, m_raised,
                   ovars, xvars, cvars, gvars, dvars>>

\* lines 255-269: write_results, and the handler of its exceptions
MainWrite ==
    /\ m_pc = "write"
    /\ \E api \in SheetApi :
         LET r == write_results(g_ws, m_keywords[m_i], m_results, api)
         IN  /\ g_ws' = r.ws
             /\ m_written' = Append(m_written,
                                [idx |-> m_i, keyword |-> m_keywords[m_i],
                                 results |-> m_results, raised |-> r.raised])
             /\ m_pc' = IF r.raised /\ handle_error(FALSE) = "raise"
                        THEN "except" ELSE "next"
    /\ UNCHANGED <<m_keywords, m_i, m_results, m_scraped, m_raised,
                   g_pc, g_keyword, g_results, g_old, g_first, g_calls, g_clean,
                   ovars, xvars, cvars, dvars>>

\* lines 274-282: the handler around one keyword
MainExcept ==
    /\ m_pc = "except"
    /\ m_pc' = IF handle_error(FALSE) = "raise" THEN "outer_except" ELSE "next"
    /\ UNCHANGED <<m_keywords, m_i, m_results, m_scraped, m_written, m_raised,
                   ovars, xvars, cvars, gvars, dvars>>

\* line 241: the next keyword, or lines 284-285 after the last one
MainNext ==
    /\ m_pc = "next"
    /\ m_i' = IF m_i < Len(m_keywords) THEN m_i + 1 ELSE m_i
    /\ m_pc' = IF m_i < Len(m_keywords) THEN "scrape" ELSE "done"
    /\ UNCHANGED <<m_keywords, m_results, m_scraped, m_written, m_raised,
                   ovars, xvars, cvars, gvars, dvars>>

\* lines 287-296: the handler around main's body
MainOuterExcept ==
    /\ m_pc = "outer_except"
    /\ m_raised' = (handle_error(FALSE) = "raise")
    /\ m_pc' = IF handle_error(FALSE) = "raise" THEN "raised" ELSE "done"
    /\ UNCHANGED <<m_keywords, m_i, m_results, m_scraped, m_written,
                   ovars, xvars, cvars, gvars, dvars>>

NextMain ==
    \/ MainSetup \/ MainScrape \/ MainTest \/ MainWrite \/ MainExcept \/ MainNext
    \/ MainOuterExcept

SpecMain == InitMain /\ [][NextMain]_vars

\* ------------------------------- AuctionDatabase.insert_auction_results
\* the row of auction_results made of a record, lines 160-187
DbRow(kw, r) == <<kw, r[KD], r[KP], r[KE], r[KI]>>
DbRows(kw, res) == [k \in 1..Len(res) |-> DbRow(kw, res[k])]

OLD_ROW == <<"desk", <<"Oak Desk">>, <<"$80.00">>, <<"2024-11-02">>, EMPTY>>

InitDb ==
    /\ OIdle /\ XIdle /\ CIdle /\ GIdle /\ MIdle
    /\ d_pc = "call"
    /\ d_keyword \in Keywords
    /\ d_results \in RecordLists(d_keyword) \cup {<<>>}
    /\ d_i = 1
    /\ d_table \in {<<>>, <<OLD_ROW>>} /\ d_before = d_table
    /\ d_open = <<>> /\ d_ret = -1 /\ d_raised = FALSE

\* lines 118-121: "if not results: return 0"
DbCall ==
    /\ d_pc = "call"
    /\ d_pc' = IF d_results = <<>> THEN "done" ELSE "frame"
    /\ d_ret' = IF d_results = <<>> THEN 0 ELSE d_ret
    /\ UNCHANGED <<d_keyword, d_results, d_i, d_table, d_open, d_before, d_raised,
                   ovars, xvars, cvars, gvars, mvars>>

\* lines 123-157: the DataFrame is built and the prices are cleaned; any of
\* it may raise
DbFrame ==
    /\ d_pc = "frame"
    /\ \E ok \in BOOLEAN : d_pc' = IF ok THEN "insert" ELSE "except"
    /\ UNCHANGED <<d_keyword, d_results, d_i, d_table, d_open, d_before, d_ret, d_raised,
                   ovars, xvars, cvars, gvars, mvars>>

\* lines 160-187: one INSERT of the loop; it raises (a value the column type
\* rejects, a lost connection) or adds the row on the connection
DbInsert ==
    /\ d_pc = "insert" /\ d_i <= Len(d_results)
    /\ \E ok \in BOOLEAN :
         IF ok
         THEN /\ d_open' = Append(d_open, DbRow(d_keyword, d_results[d_i]))
              /\ d_i' = d_i + 1 /\ d_pc' = d_pc
         ELSE /\ d_pc' = "except" /\ UNCHANGED <<d_open, d_i>>
    /\ UNCHANGED <<d_keyword, d_results, d_table, d_before, d_ret, d_raised,
                   ovars, xvars, cvars, gvars, mvars>>

\* line 188: self.conn.commit() after the loop
DbCommit ==
    /\ d_pc = "insert" /\ d_i > Len(d_results)
    /\ \E ok \in BOOLEAN :
         IF ok
         THEN /\ d_table' = d_table \o d_open /\ d_open' = <<>> /\ d_pc' = "keywords"
         ELSE /\ d_pc' = "except" /\ UNCHANGED <<d_table, d_open>>
    /\ UNCHANGED <<d_keyword, d_results, d_i, d_before, d_ret, d_raised,
                   ovars, xvars, cvars, gvars, mvars>>

\* lines 190-198: the row of the keywords table and its commit
DbKeywords ==
    /\ d_pc = "keywords"
    /\ \E ok \in BOOLEAN : d_pc' = IF ok THEN "return" ELSE "except"
    /\ UNCHANGED <<d_keyword, d_results, d_i, d_table, d_open, d_before, d_ret, d_raised,
                   ovars, xvars, cvars, gvars, mvars>>

\* line 200: return len(results)
DbReturn ==
    /\ d_pc = "return"
    /\ d_ret' = Len(d_results)
    /\ d_pc' = "done"
    /\ UNCHANGED <<d_keyword, d_results, d_i, d_table, d_open, d_before, d_raised,
                   ovars, xvars, cvars, gvars, mvars>>

\* lines 201-208: the handler prints, tries to reconnect (a new connection
\* drops what the old one had not committed) and returns 0
DbExcept ==
    /\ d_pc = "except"
    /\ \E reconnected \in BOOLEAN : d_open' = IF reconnected THEN <<>> ELSE d_open
    /\ d_ret' = 0
    /\ d_pc' = "done"
    /\ UNCHANGED <<d_keyword, d_results, d_i, d_table, d_before, d_raised,
                   ovars, xvars, cvars, gvars, mvars>>

NextDb == DbCall \/ DbFrame \/ DbInsert \/ DbCommit \/ DbKeywords \/ DbReturn \/ DbExcept

SpecDb == InitDb /\ [][NextDb]_vars

\* ------------------------------------------------------------------ claims
Terminated == pc \in {"done", "raised"}

\* C1: scrape_auction_results -> scrape_with_retry never raises and returns a
\* non-empty list, whatever the backends do.
C1_NeverRaises ==
    /\ raised = None
    /\ pc = "done" => returned # <<>>

\* C2: the returned list has between 1 and max(max_results, 1) records.
C2_LengthBounds ==
    pc = "done" =>
        /\ 1 <= Len(returned)
        /\ Len(returned) <= (IF max_results > 1 THEN max_results ELSE 1)

C2_Witness == pc = "done" /\ max_results = 2 /\ Len(returned) = 2 /\ last.backend = 2

\* C3: every record of a returned list has exactly the four required keys.
C3_FourKeys == \A k \in 1..Len(returned) : DOMAIN returned[k] = KEYS

C3_Witness ==
    /\ pc = "done" /\ Len(returned) = 2 /\ page.doc = D_mixed
    /\ returned[1][KD] = <<"Vintage Lamp">>

\* C4: an attempt is a success exactly when its list has more than one record;
\* a success is returned at once (only the pending finally runs), and no later
\* backend or round is entered; a list of length <= 1 is never a success.
C4_SuccessShortCircuits ==
    /\ last.success <=> last.len > 1
    /\ retPending => results # <<>> /\ Len(results) = last.len /\ last.success
    /\ last.success =>
          /\ pc \in {"b1_finally", "b2_finally", "done"}
          /\ pc = "done" => Len(returned) = last.len
          /\ pc # "done" => retPending
    /\ (pc = "done" /\ ~last.success) => attempt = max_retries

C4_Witness ==
    /\ pc = "done" /\ last.success /\ last.backend = 2 /\ last.round = 0 /\ max_retries = 2

\* C5: when no backend succeeds in any round, scrape returns exactly the one
\* "All scraping methods failed for '<keyword>'" record, N/A, N/A, no image.
C5_AllFailedRecord ==
    (Terminated /\ ~last.success) =>
        /\ pc = "done"
        /\ Len(returned) = 1
        /\ SubSeq(returned[1][KD], 1, 2) = <<T_ALL_FAILED, keyword>>
        /\ returned[1][KP] = NA /\ returned[1][KE] = NA /\ returned[1][KI] = EMPTY

\* C6: a browser session that was built is released exactly once before the
\* next backend starts or the function returns: at most one session is live,
\* none while no browser backend is at work, none at the return.
C6_SessionReleased ==
    /\ live \in {0, 1}
    /\ live = 1 => driver # None
    /\ pc \in {"loop", "b1_setup", "b2_setup", "cs_setup", "cs_fetch", "cs_check",
               "round_end", "done"} => live = 0

C6_Witness == pc = "cs_setup" /\ hist.anyBuilt /\ live = 0 /\ last.backend = 2 /\ last.len = 0

\* C7: an attempt whose page holds a blocking indicator (and was not unblocked
\* by captcha handling) is recorded as failed, for the browser backends and for
\* the HTTP-client backend.
C7_BlockedAttemptFails == last.blocked => ~last.success

\* C8: when every page the browser backend loads is blocked, scrape returns
\* exactly one record and its description contains "blocked".  Stated for the
\* runs that favour the claim most: those in which no backend, the HTTP client
\* included, came back with a list of its own.
C8_BlockedRecord ==
    (Terminated /\ hist.anyPage /\ hist.allBlocked /\ ~last.success) =>
        /\ pc = "done"
        /\ Len(returned) = 1
        /\ ContainsLower(returned[1][KD], "blocked")

\* C9: when every construction of the browser driver raises, scrape does not
\* raise and returns exactly one record whose description contains "error".
\* Stated, as C8, for the runs in which no backend came back with a list.
C9_ErrorRecord ==
    (Terminated /\ hist.ctorTried /\ ~hist.anyBuilt /\ ~last.success) =>
        /\ raised = None
        /\ Len(returned) = 1
        /\ ContainsLower(returned[1][KD], "error")

\* C10: extract_results_from_soup never returns an empty list; with no
\* candidate that has a real description it returns exactly the one synthetic
\* record (keyword and "found" or "blocked" in the description, N/A, N/A, no
\* image); with one it returns the real records and no synthetic record.
RealDescription(elem, i) ==
    /\ elem.raises = 0
    /\ elem.desc # NONE
    /\ elem.desc[1] # EMPTY
    /\ elem.desc[1] # Placeholder(i)

IsSynthetic(r, kw) ==
    /\ ContainsLower(r[KD], kw)
    /\ ContainsLower(r[KD], "found") \/ ContainsLower(r[KD], "blocked")
    /\ r[KP] = NA /\ r[KE] = NA /\ r[KI] = EMPTY

C10_NeverEmpty ==
    x_pc = "out" =>
        LET cands == Truncate(product_elements(x_doc), x_max_results)
            real == {i \in 1..Len(cands) : RealDescription(cands[i], i)}
        IN  /\ x_results # <<>>
            /\ real = {} => Len(x_results) = 1 /\ IsSynthetic(x_results[1], x_keyword)
            /\ real # {} =>
                  /\ Len(x_results) = Cardinality(real)
                  /\ \A k \in 1..Len(x_results) : ~IsSynthetic(x_results[k], x_keyword)

C10_Witness ==
    /\ x_pc = "out"
    /\ product_elements(x_doc) # <<>>
    /\ Len(x_results) = 1 /\ IsSynthetic(x_results[1], x_keyword)

\* C11: with n qualifying candidates in the document (n >= 1), the extractor
\* returns exactly min(n, max_results) records, and they are the first
\* min(n, max_results) qualifying candidates in document order.
FirstN(seq, n) == [k \in 1..(IF Len(seq) < n THEN Len(seq) ELSE n) |-> seq[k]]

RECURSIVE QualifyingOf(_, _)
QualifyingOf(seq, n) ==
    IF n = 0 THEN <<>>
    ELSE QualifyingOf(seq, n - 1) \o
         (IF RealDescription(seq[n], n) THEN <<seq[n]>> ELSE <<>>)

Descriptions(res) == [k \in 1..Len(res) |-> res[k][KD]]
DescriptionsOf(elems) == [k \in 1..Len(elems) |-> elems[k].desc[1]]

C11_ExactCount ==
    x_pc = "out" =>
        LET S == product_elements(x_doc)
            Q == QualifyingOf(S, Len(S))
        IN  Q # <<>> => Descriptions(x_results) = DescriptionsOf(FirstN(Q, x_max_results))

\* C11 as amended: the cut to max_results comes first.  The extractor returns
\* the qualifying candidates among the first max_results surviving candidates,
\* in document order; when these first candidates all qualify, that is
\* exactly min(n, max_results) records.
C11_FirstCandidates ==
    x_pc = "out" =>
        LET S == product_elements(x_doc)
            n == Len(QualifyingOf(S, Len(S)))
            T == FirstN(S, x_max_results)
            Q == QualifyingOf(T, Len(T))
        IN  /\ Q # <<>> => Descriptions(x_results) = DescriptionsOf(Q)
            /\ (T # <<>> /\ Len(Q) = Len(T)) =>
                  Len(x_results) = (IF n < x_max_results THEN n ELSE x_max_results)

C11_Witness ==
    /\ x_pc = "out" /\ x_max_results = 1
    /\ Len(QualifyingOf(product_elements(x_doc), Len(product_elements(x_doc)))) = 2
    /\ Len(x_results) = 1
    /\ x_results[1][KD] = product_elements(x_doc)[1].desc[1]

\* C12: main writes a keyword's results to the spreadsheet only after a
\* successful scrape of that keyword; the all-methods-failed record is never
\* written.
C12_WriteOnlyAfterSuccess ==
    \A k \in 1..Len(m_written) :
        /\ IsSuccess(m_written[k].results)
        /\ m_written[k].results # <<AllFailedRecord(m_written[k].keyword)>>

\* C13: keywords are processed one at a time in sheet order, a failure while
\* scraping or writing one keyword does not stop the loop, and main does not
\* raise.
C13_LoopGoesOn ==
    /\ ~m_raised /\ m_pc # "raised"
    /\ m_scraped = SubSeq(m_keywords, 1, Len(m_scraped))
    /\ Len(m_scraped) = (IF m_pc = "scrape" THEN m_i - 1 ELSE m_i)
    /\ \A k \in 1..Len(m_written) :
          /\ m_written[k].idx <= m_i
          /\ m_pc = "scrape" => m_written[k].idx < m_i
          /\ m_written[k].keyword = m_keywords[m_written[k].idx]
          /\ k > 1 => m_written[k - 1].idx < m_written[k].idx
    /\ (m_pc = "done" /\ m_i > 0) => m_scraped = m_keywords

C13_Witness ==
    /\ m_pc = "done" /\ Len(m_keywords) = 2 /\ Len(m_scraped) = 2
    /\ Len(m_written) = 1 /\ m_written[1].idx = 2

\* C14: a backend whose builder fails (driver = None) is skipped: the
\* orchestrator goes on to the next backend of the same round, raises nothing
\* and does not touch the missing session.
C14_BuilderFailureSkips ==
    [][ /\ (pc = "b1_finally" /\ driver = None) =>
              (pc' = "b2_setup" /\ attempt' = attempt /\ raised' = None /\ live' = live)
        /\ (pc = "b2_finally" /\ driver = None) =>
              (pc' = "cs_setup" /\ attempt' = attempt /\ raised' = None /\ live' = live)
      ]_vars

\* C16: the image field of every record the extractor returns is empty or an
\* absolute URL: "//..." gets "https:" in front, "/..." the site's origin, and
\* a candidate without an image source yields the empty string.
IsAbsolute(url) ==
    /\ url # <<>>
    /\ \/ url[1] \in {"https://", "http://"}
       \/ url[1] = "https:" /\ Len(url) > 1 /\ url[2] = "//"

C16_ImageAbsolute ==
    x_pc = "out" =>
        LET T == FirstN(product_elements(x_doc), x_max_results)
            Q == QualifyingOf(T, Len(T))
        IN  /\ \A k \in 1..Len(x_results) :
                  x_results[k][KI] = EMPTY \/ IsAbsolute(x_results[k][KI])
            /\ Q # <<>> =>
                  \A k \in 1..Len(Q) :
                      /\ Q[k].img = NONE => x_results[k][KI] = EMPTY
                      /\ (Q[k].img # NONE /\ Q[k].img[1][1] = "//") =>
                            x_results[k][KI] = <<"https:">> \o Q[k].img[1]
                      /\ (Q[k].img # NONE /\ Q[k].img[1][1] = "/") =>
                            x_results[k][KI] = BASE_URL \o Q[k].img[1]

\* C19: insert_auction_results never raises and returns the number of records
\* inserted: 0 for an empty list, 0 when a step fails (and then no record of
\* the call is persisted), len(records) when all were persisted.
C19_ReturnsInsertedCount ==
    d_pc = "done" =>
        /\ ~d_raised
        /\ d_results = <<>> => d_ret = 0
        /\ d_ret \in {0, Len(d_results)}
        /\ d_ret = 0 => d_table = d_before
        /\ d_ret = Len(d_results) => d_table = d_before \o DbRows(d_keyword, d_results)

\* C20: at most max_retries rounds; in every round the backends are attempted
\* in the order 1, 2, 3, each at most once, a later one only after the earlier
\* one of that round was unavailable or failed; at most 3 * max_retries
\* attempts are begun, and the call terminates.
C20_Schedule ==
    /\ attempt <= max_retries
    /\ hist.attempts <= 3 * max_retries
    /\ hist.attempts =
          (IF pc \in {"loop", "b1_setup"} \/ (pc = "done" /\ ~last.success)
           THEN 3 * attempt ELSE 3 * attempt + backend)
    /\ pc \in {"b1_finally", "b2_setup"} => backend = 1
    /\ pc \in {"b2_except", "b2_finally", "cs_setup"} => backend = 2
    /\ pc \in {"cs_fetch", "cs_check", "round_end"} => backend = 3
    /\ pc \in {"b2_setup", "cs_setup"} =>
          (last.round = attempt /\ last.backend = backend /\ ~last.success)
    /\ (pc = "loop" /\ attempt > 0) => (last.backend = 3 /\ ~last.success)

C20_BoundedRounds == []C20_Schedule /\ <>Terminated

C20_Witness ==
    /\ pc = "done" /\ max_retries = 2 /\ hist.attempts = 6
    /\ last.round = 1 /\ last.backend = 3

\* C15: handle_captcha never raises; it returns true only if a captcha was
\* detected and an interaction (a checkbox click or the manual-input prompt)
\* was attempted, and false when no captcha element or text is found.
C15_CaptchaOutcome ==
    c_pc = "out" =>
        /\ ~c_out.raised
        /\ c_out.ret =>
              /\ c_env.elements \/ c_env.text
              /\ c_out.clicked \/ c_out.prompted
        /\ (~c_env.elements /\ ~c_env.text) => ~c_out.ret

\* C18: after write_results returned (g_pc = "call"), the worksheet holds the header row and
\* exactly one row per record, prefixed by the keyword, and nothing of the
\* earlier content; a second call with the same arguments leaves the contents
\* unchanged; whether the worksheet existed or had to be created.
SheetHoldsResults ==
    /\ g_ws.exists
    /\ Len(g_ws.cells) = 1 + Len(g_results)
    /\ g_ws.cells[1] = COLUMNS
    /\ \A k \in 1..Len(g_results) :
          /\ Len(g_ws.cells[k + 1]) = 5
          /\ g_ws.cells[k + 1][1] = <<g_keyword>>
          /\ g_ws.cells[k + 1][2] = g_results[k][KD]
          /\ g_ws.cells[k + 1][3] = g_results[k][KE]
          /\ g_ws.cells[k + 1][4] = g_results[k][KP]

C21_BackoffBetweenRounds ==
    /\ backoffs = (IF attempt < max_retries THEN attempt ELSE max_retries - 1)
    /\ pc = "round_end" => (last.round = attempt /\ last.backend = 3 /\ ~last.success)
    /\ (pc = "done" /\ last.success) => backoffs = last.round
    /\ (pc = "done" /\ ~last.success) => backoffs = max_retries - 1

C21_Witness ==
    /\ pc = "done" /\ ~last.success /\ max_retries = MaxRetriesBound
    /\ backoffs = MaxRetriesBound - 1

\* C22: in one attempt of scrape_with_driver the captcha handling is entered
\* at most once and only from a blocking check that found the page blocked;
\* when it returns false, or the page is still blocked after it, the attempt
\* ends with the single error record and the extractor is not run; the
\* extractor is entered only with the page unblocked at the last check.
C22_BlockedMessages == {M_STILL_BLOCKED, M_BLOCKED_FAILED}

C22_CaptchaOnce ==
    [][ /\ pc' = "swd_captcha" => (pc = "swd_check" /\ page'.blocked)
        /\ pc' = "swd_extract" => (pc \in {"swd_check", "swd_captcha"} /\ ~page'.blocked)
        /\ pc = "swd_captcha" =>
              /\ pc' \in {"swd_extract", "swd_except"}
              /\ pc' = "swd_extract" => hist'.captchaHandled
              /\ pc' = "swd_except" =>
                    /\ exn' \in C22_BlockedMessages
                    /\ exn' = M_STILL_BLOCKED => page'.blocked
                    /\ results' = results
        /\ pc \in {"swd_extract", "swd_except"} => pc' \in {"swd_except", "b_check"}
        /\ (pc = "swd_except" /\ exn \in C22_BlockedMessages) =>
              (pc' = "b_check" /\ results' = <<ErrorRecord(keyword, exn)>>)
      ]_vars

C22_Witness ==
    /\ pc = "b_check" /\ exn = M_STILL_BLOCKED /\ hist.captchaHandled /\ page.blocked
    /\ results = <<ErrorRecord(keyword, M_STILL_BLOCKED)>>

\* C23: the HTTP-client backend fetches the URL formats in list order from the
\* first; a format whose fetch raises, or whose extraction is not accepted, is
\* passed over for the next one; the first list that is non-empty and holds no
\* "Error" text is returned and no further format is fetched; when the list of
\* formats is exhausted the one "All search URL formats failed" record is
\* returned.
C23_NonError(res) ==
    \A k \in 1..Len(res) : \A key \in DOMAIN res[k] :
        \A j \in 1..Len(res[k][key]) :
            res[k][key][j] \notin {T_ERR_SCRAPING, M_HTTP, "Error Coin"}

C24_SearchPages == {U_SEARCH, U_RESULTS, U_AUCTION}

C24_UrlOrder ==
    [][ /\ (pc # "swd_get" /\ pc' = "swd_get") => (urlIdx' = 1 /\ hist'.current_url = None)
        /\ (pc = "swd_get" /\ pc' = "swd_get") =>
              /\ urlIdx' = urlIdx + 1 /\ urlIdx' <= NumUrlFormats
              /\ hist'.current_url \notin C24_SearchPages
        /\ (pc = "swd_get" /\ pc' = "swd_check") =>
              /\ urlIdx' = urlIdx
              /\ hist'.current_url \in C24_SearchPages \/ urlIdx = NumUrlFormats
        /\ pc \in {"swd_check", "swd_captcha", "swd_extract", "swd_except", "b_check"} =>
              (urlIdx' = urlIdx /\ pc' # "swd_get")
      ]_vars

C24_Witness ==
    /\ pc = "swd_check" /\ urlIdx = 3 /\ hist.current_url = U_AUCTION

\* C25: the selectors are consulted in list order and the first one with a
\* match that survives the filter supplies all candidates: a selector whose
\* matches all carry a navigation word is passed over, no other selector
\* contributes, and no record comes from an element with a navigation word.
C25_Survivors(elems) == {i \in 1..Len(elems) : ~HasSkipWord(elems[i])}

C25_SelectorPriority ==
    x_pc = "out" =>
        LET S == {s \in 1..NumSelectors : C25_Survivors(x_doc[s]) # {}}
        IN  /\ S = {} => x_results = <<NoResultsRecord(x_keyword)>>
            /\ S # {} =>
                  LET f == CHOOSE s \in S : \A t \in S : s <= t
                  IN  /\ x_results =
                            extract_results_from_soup(DocAt(f, x_doc[f]), x_keyword,
                                                      x_max_results)
                      /\ \A k \in 1..Len(x_results) :
                            \/ x_results[k] = NoResultsRecord(x_keyword)
                            \/ \E i \in C25_Survivors(x_doc[f]) :
                                  /\ x_doc[f][i].desc # NONE
                                  /\ x_results[k][KD] = x_doc[f][i].desc[1]

C25_Witness ==
    /\ x_pc = "out"
    /\ \E s \in 1..(NumSelectors - 1) :
          /\ x_doc[s] = <<E_signin>> /\ x_doc[s + 1] = <<E_coin>>
    /\ Len(x_results) = 1 /\ x_results[1][KD] = <<"Error Coin">>

\* C26: a candidate yields a record only when a real description was found
\* for it: no record has an empty description or the placeholder of its
\* candidate's position; a candidate with a description and no price or date
\* is kept, with "Price not available" / "Date not available".
C26_RealDescriptions ==
    x_pc = "out" =>
        LET T == FirstN(product_elements(x_doc), x_max_results)
            Q == QualifyingOf(T, Len(T))
        IN  /\ \A k \in 1..Len(x_results) : x_results[k][KD] # EMPTY
            /\ Q = <<>> => x_results = <<NoResultsRecord(x_keyword)>>
            /\ Q # <<>> =>
                  /\ Len(x_results) = Len(Q)
                  /\ \A k \in 1..Len(Q) :
                        /\ x_results[k][KD] = Q[k].desc[1]
                        /\ x_results[k][KP] = (IF Q[k].price = NONE
                                               THEN <<"Price not available">>
                                               ELSE Q[k].price[1])
                        /\ x_results[k][KE] = (IF Q[k].date = NONE
                                               THEN <<"Date not available">>
                                               ELSE Q[k].date[1])

C26_Witness ==
    /\ x_pc = "out" /\ x_max_results >= 2
    /\ product_elements(x_doc) = <<E_bare, E_vase>>
    /\ Len(x_results) = 1
    /\ x_results[1][KD] = <<"Blue Vase">>
    /\ x_results[1][KP] = <<"Price not available">>
    /\ x_results[1][KE] = <<"Date not available">>

\* C27: when the processing of a candidate raises, that candidate alone is
\* left out: the records before it are kept, the candidates after it are
\* processed in order, and the extractor returns (the synthetic record when
\* nothing else is left).
C27_RaisingCandidateSkipped ==
    x_pc = "out" =>
        LET T == FirstN(product_elements(x_doc), x_max_results)
            bad == {j \in 1..Len(T) : T[j].raises # 0}
            rest == SelectSeq([j \in 1..Len(T) |-> [pos |-> j, elem |-> T[j]]],
                              LAMBDA c : c.elem.raises = 0 /\ RealDescription(c.elem, c.pos))
        IN  bad # {} =>
              /\ x_results # <<>>
              /\ rest = <<>> => x_results = <<NoResultsRecord(x_keyword)>>
              /\ rest # <<>> =>
                    Descriptions(x_results) = [k \in 1..Len(rest) |-> rest[k].elem.desc[1]]
              /\ \A k \in 1..Len(x_results) : \A j \in bad :
                    T[j].desc # NONE => x_results[k][KD] # T[j].desc[1]

C27_Witness ==
    /\ x_pc = "out" /\ x_max_results >= 2
    /\ product_elements(x_doc) = <<E_bad, E_lamp>>
    /\ Len(x_results) = 1 /\ x_results[1][KD] = <<"Vintage Lamp">>

C29_TruncateBeforeValidity ==
    x_pc = "out" =>
        LET S == product_elements(x_doc)
            m == IF Len(S) < x_max_results THEN Len(S) ELSE x_max_results
            valid == {j \in 1..m : RealDescription(S[j], j)}
            real == {k \in 1..Len(x_results) : x_results[k] # NoResultsRecord(x_keyword)}
        IN  /\ Cardinality(real) = Cardinality(valid)
            /\ \A k \in real : \E j \in valid : x_results[k][KD] = S[j].desc[1]
            /\ valid = {} => x_results = <<NoResultsRecord(x_keyword)>>

C29_Witness ==
    /\ x_pc = "out" /\ x_max_results = 1
    /\ product_elements(x_doc) = <<E_bare, E_lamp>>
    /\ x_results = <<NoResultsRecord(x_keyword)>>

\* C30: after main's loop, the worksheet holds the header row and only the
\* rows of the last keyword whose write succeeded; nothing of the keywords
\* written before it is left.
C30_Holds(w) ==
    /\ g_ws.exists
    /\ Len(g_ws.cells) = 1 + Len(w.results)
    /\ g_ws.cells[1] = COLUMNS
    /\ \A k \in 1..Len(w.results) :
          /\ Len(g_ws.cells[k + 1]) = 5
          /\ g_ws.cells[k + 1][1] = <<w.keyword>>
          /\ g_ws.cells[k + 1][2] = w.results[k][KD]
          /\ g_ws.cells[k + 1][3] = w.results[k][KE]
          /\ g_ws.cells[k + 1][4] = w.results[k][KP]

C30_Succeeded == {k \in 1..Len(m_written) : ~m_written[k].raised}

C30_LastSucceeded == CHOOSE k \in C30_Succeeded : \A j \in C30_Succeeded : j <= k

C30_LastKeywordOnly ==
    (m_pc = "done" /\ C30_Succeeded # {}) => C30_Holds(m_written[C30_LastSucceeded])

\* C30 as amended: ... or the worksheet is empty, when the write of a later
\* keyword raised after the worksheet was cleared.
C30_LastKeywordOrCleared ==
    (m_pc = "done" /\ C30_Succeeded # {}) =>
        \/ C30_Holds(m_written[C30_LastSucceeded])
        \/ /\ \E j \in 1..Len(m_written) : j > C30_LastSucceeded /\ m_written[j].raised
           /\ g_ws.exists /\ g_ws.cells = <<>>

C30_Witness ==
    /\ m_pc = "done" /\ Len(m_written) = 2
    /\ ~m_written[1].raised /\ ~m_written[2].raised
    /\ m_written[1].keyword # m_written[2].keyword
    /\ Len(m_written[2].results) < Len(m_written[1].results)
    /\ C30_Holds(m_written[2])

====
